---------------------------- MODULE Spec2Model ----------------------------
(***************************************************************************)
(* Payment intent store (cache backend), changeset application and the    *)
(* connector access-token coordinator of the router crate.                *)
(*                                                                         *)
(*   crates/router/src/types/storage/payment_intent.rs   changeset model  *)
(*   crates/router/src/db/payment_intent.rs               kv_store backend *)
(*   crates/router/src/services/refresh_token.rs          access tokens    *)
(*                                                                         *)
(* Option<T> is modelled as a sequence of length at most one: None is     *)
(* <<>> and Some(x) is <<x>>, so Option<Option<T>> keeps Some(None)       *)
(* (<< <<>> >>) apart from None (<<>>).                                    *)
(***************************************************************************)
EXTENDS Integers, Sequences, FiniteSets, TLC

VARIABLES
    clock,      \* the value date_time::now() returns
    redis,      \* cache backend: key -> hash field -> Option<serialized intent>
    last,       \* the most recent store operation, its inputs, reply and result
    nops,       \* number of store operations performed
    csSource,   \* apply_changeset on its own: the source intent
    csUpdate,   \* apply_changeset on its own: the PaymentIntentUpdate
    csResult,   \* apply_changeset on its own: Option<its result>
    csChain,    \* apply_changeset on its own: updates applied in a row
    tokens,     \* access-token cache: <<merchant_id, connector>> -> Option<token>
    written,    \* keys for which a set_access_token has succeeded
    call,       \* per caller: the add_access_token call in progress
    issued,     \* number of tokens connectors have issued
    ncalls,     \* number of add_access_token calls started
    task,       \* per task: a store call running concurrently with the other
    hook        \* the incoming webhook being handled

storeVars == <<redis, last, nops>>
csVars    == <<csSource, csUpdate, csResult, csChain>>
tokenVars == <<tokens, written, call, issued, ncalls>>
taskVars  == <<task>>
hookVars  == <<hook>>
vars      == <<clock, redis, last, nops, csSource, csUpdate, csResult,
               csChain, tokens, written, call, issued, ncalls, task,
               hook>>

----------------------------------------------------------------------------
(* Bounds of the model *)

MaxClock == 1
MaxOps   == 3
MaxChain == 2
MaxCalls == 3

----------------------------------------------------------------------------
(* Option *)

None       == <<>>
Some(x)    == <<x>>
\* Option::unwrap_or
UnwrapOr(o, d) == IF o # <<>> THEN o[1] ELSE d
\* an "or" that always takes the new value
OrElseTakesNew(o, p) == o
\* an "or" that prefers the old value
OrElsePrefersOld(o, p) == IF p # <<>> THEN p ELSE o
\* Option::or
OrElse(o, p)   == IF o # <<>> THEN o ELSE p

----------------------------------------------------------------------------
(* Values the inputs are drawn from *)

\* enums::IntentStatus (three of its states; Succeeded is the success terminal state)
IntentStatus == {"RequiresPaymentMethod", "Processing", "Succeeded"}

\* serde_json::Value: JNull is Value::Null
JNull == "null"

\* the (payment_id, merchant_id) pairs in use; the first two differ and yet
\* give the same text when joined by "_"
NaturalKeys == { <<"p", "x_m">>, <<"p_x", "m">>, <<"p", "m">> }

Times == 0..MaxClock

----------------------------------------------------------------------------
(* types/storage/payment_intent.rs *)

\* PaymentIntentUpdateInternal::default()
InternalDefault ==
    [ amount              |-> None,
      currency            |-> None,
      status              |-> None,
      amount_captured     |-> None,
      customer_id         |-> None,
      return_url          |-> None,
      setup_future_usage  |-> None,
      off_session         |-> None,
      metadata            |-> None,
      client_secret       |-> None,
      billing_address_id  |-> None,
      shipping_address_id |-> None,
      modified_at         |-> None ]

\* fn make_client_secret_null_if_success: Some(None) forces the secret absent
make_client_secret_null_if_success(status) ==
    IF status = Some("Succeeded") THEN Some(None) ELSE None

\* impl From<PaymentIntentUpdate> for PaymentIntentUpdateInternal
FromUpdate(u, now) ==
    CASE u.variant = "Update" ->
           [InternalDefault EXCEPT
              !.amount              = Some(u.amount),
              !.currency            = Some(u.currency),
              !.status              = Some(u.status),
              !.customer_id         = u.customer_id,
              !.client_secret       = make_client_secret_null_if_success(Some(u.status)),
              !.shipping_address_id = u.shipping_address_id,
              !.billing_address_id  = u.billing_address_id,
              !.modified_at         = Some(now)]
      [] u.variant = "MetadataUpdate" ->
           [InternalDefault EXCEPT
              !.metadata    = Some(u.metadata),
              !.modified_at = Some(now)]
      [] u.variant = "ReturnUrlUpdate" ->
           [InternalDefault EXCEPT
              !.return_url          = u.return_url,
              !.status              = u.status,
              !.client_secret       = make_client_secret_null_if_success(u.status),
              !.customer_id         = u.customer_id,
              !.shipping_address_id = u.shipping_address_id,
              !.billing_address_id  = u.billing_address_id,
              !.modified_at         = Some(now)]
      [] u.variant = "PGStatusUpdate" ->
           [InternalDefault EXCEPT
              !.status      = Some(u.status),
              !.modified_at = Some(now)]
      [] u.variant = "MerchantStatusUpdate" ->
           [InternalDefault EXCEPT
              !.status              = Some(u.status),
              !.client_secret       = make_client_secret_null_if_success(Some(u.status)),
              !.shipping_address_id = u.shipping_address_id,
              !.billing_address_id  = u.billing_address_id,
              !.modified_at         = Some(now)]
      [] u.variant = "ResponseUpdate" ->
           [InternalDefault EXCEPT
              !.status          = Some(u.status),
              !.amount_captured = u.amount_captured,
              !.return_url      = u.return_url,
              !.client_secret   = make_client_secret_null_if_success(Some(u.status)),
              !.modified_at     = Some(now)]

\* a merge that stamps created_at as well
apply_changeset_restamping(u, source, now) ==
    LET internal_update == FromUpdate(u, now) IN
    [source EXCEPT
       !.amount              = UnwrapOr(internal_update.amount, source.amount),
       !.currency            = OrElse(internal_update.currency, source.currency),
       !.status              = UnwrapOr(internal_update.status, source.status),
       !.amount_captured     = OrElse(internal_update.amount_captured, source.amount_captured),
       !.customer_id         = OrElse(internal_update.customer_id, source.customer_id),
       !.return_url          = OrElse(internal_update.return_url, source.return_url),
       !.setup_future_usage  = OrElse(internal_update.setup_future_usage, source.setup_future_usage),
       !.off_session         = OrElse(internal_update.off_session, source.off_session),
       !.metadata            = OrElse(internal_update.metadata, source.metadata),
       !.client_secret       = UnwrapOr(internal_update.client_secret, source.client_secret),
       !.billing_address_id  = OrElse(internal_update.billing_address_id, source.billing_address_id),
       !.shipping_address_id = OrElse(internal_update.shipping_address_id, source.shipping_address_id),
       !.modified_at         = now,
       !.created_at          = now]

\* a merge that assigns the optional fields instead of falling back to source
apply_changeset_assigning(u, source, now) ==
    LET internal_update == FromUpdate(u, now) IN
    [source EXCEPT
       !.amount              = UnwrapOr(internal_update.amount, source.amount),
       !.currency            = internal_update.currency,
       !.status              = UnwrapOr(internal_update.status, source.status),
       !.amount_captured     = internal_update.amount_captured,
       !.customer_id         = internal_update.customer_id,
       !.return_url          = internal_update.return_url,
       !.setup_future_usage  = internal_update.setup_future_usage,
       !.off_session         = internal_update.off_session,
       !.metadata            = internal_update.metadata,
       !.client_secret       = UnwrapOr(internal_update.client_secret, source.client_secret),
       !.billing_address_id  = internal_update.billing_address_id,
       !.shipping_address_id = internal_update.shipping_address_id,
       !.modified_at         = now]

\* PaymentIntentUpdate::apply_changeset; now is what date_time::now() returns
apply_changeset(u, source, now) ==
    LET internal_update == FromUpdate(u, now) IN
    [source EXCEPT
       !.amount              = UnwrapOr(internal_update.amount, source.amount),
       !.currency            = OrElse(internal_update.currency, source.currency),
       !.status              = UnwrapOr(internal_update.status, source.status),
       !.amount_captured     = OrElse(internal_update.amount_captured, source.amount_captured),
       !.customer_id         = OrElse(internal_update.customer_id, source.customer_id),
       !.return_url          = OrElse(internal_update.return_url, source.return_url),
       !.setup_future_usage  = OrElse(internal_update.setup_future_usage, source.setup_future_usage),
       !.off_session         = OrElse(internal_update.off_session, source.off_session),
       !.metadata            = OrElse(internal_update.metadata, source.metadata),
       !.client_secret       = UnwrapOr(internal_update.client_secret, source.client_secret),
       !.billing_address_id  = OrElse(internal_update.billing_address_id, source.billing_address_id),
       !.shipping_address_id = OrElse(internal_update.shipping_address_id, source.shipping_address_id),
       !.modified_at         = now]

\* enum PaymentIntentUpdate: the values of each variant, over small field sets
ResponseUpdates ==
    [ variant : {"ResponseUpdate"}, status : IntentStatus,
      amount_captured : {None, Some(2)}, return_url : {None, Some("r2")} ]
MetadataUpdates ==
    [ variant : {"MetadataUpdate"}, metadata : {"md2", JNull} ]
ReturnUrlUpdates ==
    [ variant : {"ReturnUrlUpdate"}, return_url : {None, Some("r2")},
      status : {None} \cup {Some(s) : s \in IntentStatus},
      customer_id : {None, Some("c2")},
      shipping_address_id : {None, Some("s2")},
      billing_address_id : {None, Some("b2")} ]
MerchantStatusUpdates ==
    [ variant : {"MerchantStatusUpdate"}, status : IntentStatus,
      shipping_address_id : {None, Some("s2")},
      billing_address_id : {None, Some("b2")} ]
PGStatusUpdates ==
    [ variant : {"PGStatusUpdate"}, status : IntentStatus ]
FullUpdates ==
    [ variant : {"Update"}, amount : {2}, currency : {"EUR"}, status : IntentStatus,
      customer_id : {None, Some("c2")},
      shipping_address_id : {None, Some("s2")},
      billing_address_id : {None, Some("b2")} ]

PaymentIntentUpdate ==
    ResponseUpdates \cup MetadataUpdates \cup ReturnUrlUpdates \cup
    MerchantStatusUpdates \cup PGStatusUpdates \cup FullUpdates

\* struct PaymentIntent, with its optional fields all absent (sparse = TRUE)
\* or all present
Intent(pid, mid, status, secret, sparse, created, modified) ==
    [ id                          |-> 0,
      payment_id                  |-> pid,
      merchant_id                 |-> mid,
      status                      |-> status,
      amount                      |-> 1,
      currency                    |-> IF sparse THEN None ELSE Some("USD"),
      amount_captured             |-> IF sparse THEN None ELSE Some(1),
      customer_id                 |-> IF sparse THEN None ELSE Some("c1"),
      description                 |-> IF sparse THEN None ELSE Some("d1"),
      return_url                  |-> IF sparse THEN None ELSE Some("r1"),
      metadata                    |-> IF sparse THEN None ELSE Some("md1"),
      connector_id                |-> IF sparse THEN None ELSE Some("k1"),
      shipping_address_id         |-> IF sparse THEN None ELSE Some("s1"),
      billing_address_id          |-> IF sparse THEN None ELSE Some("b1"),
      statement_descriptor_name   |-> IF sparse THEN None ELSE Some("n1"),
      statement_descriptor_suffix |-> IF sparse THEN None ELSE Some("x1"),
      created_at                  |-> created,
      modified_at                 |-> modified,
      last_synced                 |-> IF sparse THEN None ELSE Some(0),
      setup_future_usage          |-> IF sparse THEN None ELSE Some("OnSession"),
      off_session                 |-> IF sparse THEN None ELSE Some(FALSE),
      client_secret               |-> secret ]

\* status and client_secret of an intent nobody has updated yet: a client
\* secret is handed out only while the payment has not succeeded
FreshStatusSecret ==
    { ss \in IntentStatus \X {None, Some("cs")} :
        ss[1] = "Succeeded" => ss[2] = None }


----------------------------------------------------------------------------
(* db/payment_intent.rs, mod storage under feature kv_store *)

\* struct PaymentIntentNew
New(pid, mid, status, secret, sparse, created) ==
    [ payment_id                  |-> pid,
      merchant_id                 |-> mid,
      status                      |-> status,
      amount                      |-> 1,
      currency                    |-> IF sparse THEN None ELSE Some("USD"),
      amount_captured             |-> IF sparse THEN None ELSE Some(1),
      customer_id                 |-> IF sparse THEN None ELSE Some("c1"),
      description                 |-> IF sparse THEN None ELSE Some("d1"),
      return_url                  |-> IF sparse THEN None ELSE Some("r1"),
      metadata                    |-> IF sparse THEN None ELSE Some("md1"),
      connector_id                |-> IF sparse THEN None ELSE Some("k1"),
      shipping_address_id         |-> IF sparse THEN None ELSE Some("s1"),
      billing_address_id          |-> IF sparse THEN None ELSE Some("b1"),
      statement_descriptor_name   |-> IF sparse THEN None ELSE Some("n1"),
      statement_descriptor_suffix |-> IF sparse THEN None ELSE Some("x1"),
      created_at                  |-> created,
      modified_at                 |-> None,
      last_synced                 |-> IF sparse THEN None ELSE Some(0),
      client_secret               |-> secret,
      setup_future_usage          |-> IF sparse THEN None ELSE Some("OnSession"),
      off_session                 |-> IF sparse THEN None ELSE Some(FALSE) ]

\* the PaymentIntentNew values insert is called with
NewIntents ==
    { New(nk[1], nk[2], ss[1], ss[2], sparse, created) :
        nk \in NaturalKeys,
        ss \in {<<"RequiresPaymentMethod", Some("cs")>>, <<"Succeeded", None>>},
        sparse \in {TRUE},
        created \in {None, Some(1)} }

\* format!("{}_{}", payment_id, merchant_id)
Key(payment_id, merchant_id) == payment_id \o "_" \o merchant_id

CacheKeys == { Key(nk[1], nk[2]) : nk \in NaturalKeys }

\* the hash fields the backend uses
Fields == {"pa", "pi"}

\* let created_intent = PaymentIntent { .. }; t1 and t2 are the two readings
\* of date_time::now()
CreatedIntent(new, t1, t2) ==
    [ id                          |-> 0,
      payment_id                  |-> new.payment_id,
      merchant_id                 |-> new.merchant_id,
      status                      |-> new.status,
      amount                      |-> new.amount,
      currency                    |-> new.currency,
      amount_captured             |-> new.amount_captured,
      customer_id                 |-> new.customer_id,
      description                 |-> new.description,
      return_url                  |-> new.return_url,
      metadata                    |-> new.metadata,
      connector_id                |-> new.connector_id,
      shipping_address_id         |-> new.shipping_address_id,
      billing_address_id          |-> new.billing_address_id,
      statement_descriptor_name   |-> new.statement_descriptor_name,
      statement_descriptor_suffix |-> new.statement_descriptor_suffix,
      created_at                  |-> UnwrapOr(new.created_at, t1),
      modified_at                 |-> UnwrapOr(new.created_at, t2),
      last_synced                 |-> new.last_synced,
      setup_future_usage          |-> new.setup_future_usage,
      off_session                 |-> new.off_session,
      client_secret               |-> new.client_secret ]

\* the fields of PaymentIntent of an Option type
OptionFields ==
    { "currency", "amount_captured", "customer_id", "description", "return_url",
      "metadata", "connector_id", "shipping_address_id", "billing_address_id",
      "statement_descriptor_name", "statement_descriptor_suffix", "last_synced",
      "setup_future_usage", "off_session", "client_secret" }

\* JSON values: null, or a value
JsonNull     == [json |-> "null"]
JsonValue(v) == [json |-> "value", v |-> v]

\* serde_json::to_string(&PaymentIntent): one member per field; an absent
\* Option is written as null, and so is metadata Some(Value::Null). It does
\* not fail for this struct.
ToJson(intent) ==
    [ f \in DOMAIN intent |->
        IF f \in OptionFields
          THEN IF intent[f] = None THEN JsonNull
               ELSE IF f = "metadata" /\ intent[f] = Some(JNull) THEN JsonNull
               ELSE JsonValue(intent[f][1])
          ELSE JsonValue(intent[f]) ]

\* serde_json::from_str::<PaymentIntent>: null is read as None for an Option
\* field
FromJson(json) ==
    [ f \in DOMAIN json |->
        IF f \in OptionFields
          THEN IF json[f] = JsonNull THEN None ELSE Some(json[f].v)
          ELSE json[f].v ]

\* result constructors: CustomResult<_, errors::StorageError>
Ok(v)  == [tag |-> "Ok", val |-> Some(v)]
Err(e) == [tag |-> e, val |-> None]

\* HSET key field value
Hset(r, key, field, value) ==
    [r EXCEPT ![key] = [@ EXCEPT ![field] = Some(value)]]

\* a reply of the cache: Result<T, RedisError>
Reply(v)      == [tag |-> "Ok", val |-> Some(v)]
ReplyErr(kind) == [tag |-> kind, val |-> None]

\* HSETNX key field value: <<reply, store>>, reply 1 when the field was set
Hsetnx(r, key, field, value) ==
    IF r[key][field] = None
      THEN <<Reply(1), Hset(r, key, field, value)>>
      ELSE <<Reply(0), r>>

\* HGET key field, converted to String: a nil reply is a NotFound error
Hget(r, key, field) ==
    IF r[key][field] = None
      THEN ReplyErr("NotFound")
      ELSE Reply(r[key][field][1])

\* An unconditional write in place of the conditional one
InsertWriteOverwrites(r, key, value) == <<Reply(1), Hset(r, key, "pa", value)>>

\* insert_payment_intent: self.redis_conn.pool.hsetnx(&key, "pa", &redis_value)
InsertWrite(r, key, value) == Hsetnx(r, key, "pa", value)

\* a match that takes every reply for "written"
InsertResultAlwaysCreated(reply, created_intent) == Ok(created_intent)
\* insert_payment_intent: the match on the reply of hsetnx
InsertResult(reply, created_intent) ==
    CASE reply = Reply(0) -> Err("DuplicateValue")
      [] reply = Reply(1) -> Ok(created_intent)
      [] OTHER            -> Err("KVError")

\* a write that leaves a record already stored in place
UpdateWriteIfAbsent(r, key, value) ==
    IF r[key]["pi"] = None THEN Hset(r, key, "pi", value) ELSE r
\* update_payment_intent: self.redis_conn.pool.hset(&key, ("pi", redis_value))
UpdateWrite(r, key, value) == Hset(r, key, "pi", value)

\* find_payment_intent_by_payment_id_merchant_id: map_err and and_then on the
\* reply of hget
FindResult(reply) ==
    CASE reply.tag = "Ok"       -> Ok(FromJson(reply.val[1]))
      [] reply.tag = "NotFound" -> Err("ValueNotFound")
      [] OTHER                  -> Err("KVError")

\* A listing that answers with an empty list
FilterResultEmptyList(merchant_id, pc) == Ok(<<>>)

\* filter_payment_intent_by_constraints
FilterResult(merchant_id, pc) == Err("KVError")


----------------------------------------------------------------------------
(* The store as a state machine *)

\* the kinds of RedisError a failed cache call carries, besides NotFound
RedisErrorKinds == {"IO"}

\* what a cache call does: it is carried out, or it fails without effect
Outcomes == {"Ok"} \cup RedisErrorKinds

\* intents a caller obtained elsewhere than from this cache
Foreign ==
    { [Intent("p", "m", "Processing", None, TRUE, 0, 0) EXCEPT !.id = 7] }

\* the update intents the store is called with
StoreUpdates ==
    { [variant |-> "PGStatusUpdate", status |-> "Succeeded"],
      [variant |-> "ResponseUpdate", status |-> "Succeeded",
       amount_captured |-> Some(2), return_url |-> None],
      [variant |-> "MetadataUpdate", metadata |-> JNull],
      [variant |-> "ReturnUrlUpdate", return_url |-> Some("r2"), status |-> None,
       customer_id |-> None, shipping_address_id |-> None,
       billing_address_id |-> None],
      [variant |-> "MerchantStatusUpdate", status |-> "Processing",
       shipping_address_id |-> Some("s2"), billing_address_id |-> None],
      [variant |-> "Update", amount |-> 2, currency |-> "EUR",
       status |-> "Succeeded", customer_id |-> Some("c2"),
       shipping_address_id |-> None, billing_address_id |-> None] }

\* api::PaymentListConstraints, as far as the cache backend looks at them
Constraints == {"none", "limit"}

NoOp == [op |-> "none", payment_id |-> "", merchant_id |-> "", pc |-> "",
         reply |-> "", result |-> Err("none")]

\* the intents callers hold: what the cache keeps under either field (the
\* intent as inserted, the intent as last updated)
Held ==
    { FromJson(redis[kf[1]][kf[2]][1]) :
        kf \in { x \in CacheKeys \X Fields : redis[x[1]][x[2]] # None } }

StoreInit ==
    /\ redis = [k \in CacheKeys |-> [f \in Fields |-> None]]
    /\ last = NoOp
    /\ nops = 0

\* date_time::now() moves on
Tick ==
    /\ clock < MaxClock
    /\ clock' = clock + 1

\* async fn insert_payment_intent(&self, new); its two readings of
\* date_time::now() fall within one tick of the clock
insert_payment_intent ==
    /\ nops < MaxOps
    /\ \E new \in NewIntents, outcome \in Outcomes :
         LET key            == Key(new.payment_id, new.merchant_id)
             created_intent == CreatedIntent(new, clock, clock)
             redis_value    == ToJson(created_intent)
             done           == InsertWrite(redis, key, redis_value)
             reply          == IF outcome = "Ok" THEN done[1] ELSE ReplyErr(outcome)
             result         == InsertResult(reply, created_intent)
         IN  /\ redis' = IF outcome = "Ok" THEN done[2] ELSE redis
             /\ last' = [op |-> "insert", payment_id |-> new.payment_id,
                         merchant_id |-> new.merchant_id, pc |-> "",
                         reply |-> reply.tag, result |-> result]
    /\ nops' = nops + 1
    /\ UNCHANGED clock

\* async fn update_payment_intent(&self, this, payment_intent)
update_payment_intent ==
    /\ nops < MaxOps
    /\ \E this \in Held \cup Foreign, payment_intent \in StoreUpdates,
          outcome \in Outcomes :
         LET key            == Key(this.payment_id, this.merchant_id)
             updated_intent == apply_changeset(payment_intent, this, clock)
             redis_value    == ToJson(updated_intent)
             result         == IF outcome = "Ok" THEN Ok(updated_intent)
                                                ELSE Err("KVError")
         IN  /\ redis' = IF outcome = "Ok" THEN UpdateWrite(redis, key, redis_value)
                                           ELSE redis
             /\ last' = [op |-> "update", payment_id |-> this.payment_id,
                         merchant_id |-> this.merchant_id, pc |-> "",
                         reply |-> outcome, result |-> result]
    /\ nops' = nops + 1
    /\ UNCHANGED clock

\* async fn find_payment_intent_by_payment_id_merchant_id(&self, payment_id, merchant_id)
find_payment_intent_by_payment_id_merchant_id ==
    /\ nops < MaxOps
    /\ \E nk \in NaturalKeys, outcome \in Outcomes :
         LET payment_id  == nk[1]
             merchant_id == nk[2]
             key         == Key(payment_id, merchant_id)
             reply       == IF outcome = "Ok" THEN Hget(redis, key, "pi")
                                              ELSE ReplyErr(outcome)
         IN  last' = [op |-> "find", payment_id |-> payment_id,
                      merchant_id |-> merchant_id, pc |-> "",
                      reply |-> reply.tag, result |-> FindResult(reply)]
    /\ nops' = nops + 1
    /\ UNCHANGED <<clock, redis>>

\* async fn filter_payment_intent_by_constraints(&self, merchant_id, pc)
filter_payment_intent_by_constraints ==
    /\ nops < MaxOps
    /\ \E merchant_id \in {nk[2] : nk \in NaturalKeys}, pc \in Constraints :
         last' = [op |-> "filter", payment_id |-> "", merchant_id |-> merchant_id,
                  pc |-> pc, reply |-> "", result |-> FilterResult(merchant_id, pc)]
    /\ nops' = nops + 1
    /\ UNCHANGED <<clock, redis>>

----------------------------------------------------------------------------
(* apply_changeset on its own: every source intent with every update *)

CsSources ==
    { Intent("p", "m", ss[1], ss[2], sparse, 0, modified) :
        ss \in FreshStatusSecret, sparse \in BOOLEAN, modified \in Times }

CsInit ==
    /\ csSource \in CsSources
    /\ csUpdate \in PaymentIntentUpdate
    /\ csResult = None
    /\ csChain = 0

\* payment_intent.apply_changeset(source)
CsApply ==
    /\ csResult = None
    /\ csResult' = Some(apply_changeset(csUpdate, csSource, clock))
    /\ csChain' = csChain + 1
    /\ UNCHANGED <<clock, csSource, csUpdate>>

\* the result is updated in turn
CsAgain ==
    /\ csResult # None
    /\ csChain < MaxChain
    /\ csSource' = csResult[1]
    /\ csUpdate' \in StoreUpdates
    /\ csResult' = None
    /\ UNCHANGED <<clock, csChain>>

CsIdle ==
    /\ csSource = Intent("p", "m", "Processing", None, TRUE, 0, 0)
    /\ csUpdate = [variant |-> "PGStatusUpdate", status |-> "Processing"]
    /\ csResult = None
    /\ csChain = 0

----------------------------------------------------------------------------
(* services/refresh_token.rs *)

\* api_models::enums::Connector (Adyen stands for the connectors of the
\* wildcard arm)
Connectors == {"Globalpay", "Payu", "Stripe", "Adyen"}

\* merchant_account.merchant_id
Merchants == {"m1", "m2"}

\* the callers of add_access_token that run concurrently
Callers == {"a", "b"}

\* the error responses a connector answers a refresh with
ConnectorErrors == {"E401", "E500"}

\* pub fn connector_supports_access_token
connector_supports_access_token(connector) ==
    CASE connector \in {"Globalpay", "Payu"} -> TRUE
      [] connector = "Stripe"                -> FALSE
      [] OTHER                               -> FALSE

\* db.get_access_token(merchant_id, connector.connector.id())
get_access_token(cache, merchant_id, connector) == cache[<<merchant_id, connector>>]

\* db.set_access_token(merchant_id, connector.connector.id(), access_token)
set_access_token(cache, merchant_id, connector, access_token) ==
    [cache EXCEPT ![<<merchant_id, connector>>] = Some(access_token)]

\* RouterResult<(Result<Option<AccessToken>, ErrorResponse>, bool)>:
\* outer is the RouterResult, inner the Result of the pair
Returned(inner, token, error, attempted) ==
    [outer |-> "Ok", inner |-> inner, token |-> token, error |-> error,
     attempted |-> attempted]
NoResult ==
    [outer |-> "none", inner |-> "none", token |-> None, error |-> "",
     attempted |-> FALSE]

\* a failure answered with a pair, as if the connector used no tokens
FailureAsPair == [outer |-> "Ok", inner |-> "Err", token |-> None,
                  error |-> "default", attempted |-> FALSE]
\* the `?` on a failed cache lookup or a failed connector call:
\* Err(ApiErrorResponse::InternalServerError)
InternalServerError ==
    [outer |-> "InternalServerError", inner |-> "none", token |-> None,
     error |-> "", attempted |-> FALSE]

\* An else branch that reports an attempt
UnsupportedAttempted == Returned("Err", None, "default", TRUE)

\* add_access_token, else branch: Ok((Err(ErrorResponse::default()), false))
Unsupported == Returned("Err", None, "default", FALSE)

\* A lookup whose cached token is ignored
AlwaysRefresh(old_access_token) == "refresh"

\* add_access_token: match old_access_token
AfterLookup(old_access_token) ==
    IF old_access_token # None THEN "return" ELSE "refresh"

\* add_access_token, Some(access_token) arm: Ok((Ok(Some(access_token)), true))
Hit(access_token) == Returned("Ok", Some(access_token), "", TRUE)

\* A write-back whose failure is propagated
WriteBackPropagated(access_token, set_ok) ==
    IF set_ok THEN Returned("Ok", Some(access_token), "", TRUE)
              ELSE InternalServerError

\* add_access_token, async_map closure: the reply of set_access_token is
\* dropped (let _ = ..) and Some(access_token) is the value
WriteBack(access_token, set_ok) == Returned("Ok", Some(access_token), "", TRUE)

\* a write-back that leaves a token already in the cache in place
WriteBackCacheIfCold(cache, merchant_id, connector, access_token, set_ok) ==
    IF set_ok /\ cache[<<merchant_id, connector>>] = None
      THEN set_access_token(cache, merchant_id, connector, access_token)
      ELSE cache
\* add_access_token, async_map closure: db.set_access_token is called with the
\* token just obtained, whatever the cache holds by then; set_ok tells whether
\* the cache took the write
WriteBackCache(cache, merchant_id, connector, access_token, set_ok) ==
    IF set_ok
      THEN set_access_token(cache, merchant_id, connector, access_token)
      ELSE cache

\* A refresh failure answered with the default error response
RefreshRejectedDefault(error_response) == Returned("Err", None, "default", TRUE)

\* add_access_token: async_map leaves Err(error_response) as it is and the
\* function returns Ok((res, true))
RefreshRejected(error_response) == Returned("Err", None, error_response, TRUE)

IdleCall ==
    [ pc |-> "idle", merchant_id |-> "", connector |-> "",
      warm |-> FALSE, cached |-> None, lookup |-> "none",
      refresh |-> "none", error |-> "", token |-> None, set |-> "none",
      reads |-> 0, refreshes |-> 0, writes |-> 0, result |-> NoResult ]

TokenInit ==
    /\ tokens = [k \in Merchants \X Connectors |-> None]
    /\ written = {}
    /\ call = [c \in Callers |-> IdleCall]
    /\ issued = 0
    /\ ncalls = 0

\* add_access_token is called: if connector_supports_access_token(connector)
TokenStart(c) ==
    /\ call[c].pc = "idle"
    /\ ncalls < MaxCalls
    /\ \E merchant_id \in Merchants, connector \in Connectors :
         call' = [call EXCEPT ![c] =
                    IF connector_supports_access_token(connector)
                      THEN [IdleCall EXCEPT !.pc = "get",
                                            !.merchant_id = merchant_id,
                                            !.connector = connector]
                      ELSE [IdleCall EXCEPT !.pc = "done",
                                            !.merchant_id = merchant_id,
                                            !.connector = connector,
                                            !.result = Unsupported]]
    /\ ncalls' = ncalls + 1
    /\ UNCHANGED <<tokens, written, issued>>

\* let old_access_token = db.get_access_token(..).await ..?; match old_access_token
TokenLookup(c) ==
    /\ call[c].pc = "get"
    /\ \E answered \in BOOLEAN :
         LET key == <<call[c].merchant_id, call[c].connector>>
             old_access_token ==
                 get_access_token(tokens, call[c].merchant_id, call[c].connector)
             seen == [call[c] EXCEPT !.reads = @ + 1,
                                     !.warm = key \in written,
                                     !.cached = tokens[key]]
         IN  call' = [call EXCEPT ![c] =
                 IF ~answered
                   THEN [seen EXCEPT !.pc = "done", !.lookup = "failed",
                                     !.result = InternalServerError]
                 ELSE IF AfterLookup(old_access_token) = "return"
                   THEN [seen EXCEPT !.pc = "done", !.lookup = "hit",
                                     !.result = Hit(old_access_token[1])]
                   ELSE [seen EXCEPT !.pc = "refresh",
                                     !.lookup = IF old_access_token = None
                                                  THEN "miss" ELSE "hit"]]
    /\ UNCHANGED <<tokens, written, issued, ncalls>>

\* refresh_connector_auth(state, connector, merchant_account, ..).await?
\* execute_connector_processing_step fails, or the connector answers with a
\* token or with an error response
TokenRefresh(c) ==
    /\ call[c].pc = "refresh"
    /\ \E answer \in {"failed", "token"} \cup ConnectorErrors :
         LET called == [call[c] EXCEPT !.refreshes = @ + 1] IN
         CASE answer = "failed" ->
                /\ call' = [call EXCEPT ![c] =
                              [called EXCEPT !.pc = "done", !.refresh = "failed",
                                             !.result = InternalServerError]]
                /\ UNCHANGED issued
           [] answer = "token" ->
                /\ issued' = issued + 1
                /\ call' = [call EXCEPT ![c] =
                              [called EXCEPT !.pc = "set", !.refresh = "token",
                                             !.token = Some(issued + 1)]]
           [] OTHER ->
                /\ call' = [call EXCEPT ![c] =
                              [called EXCEPT !.pc = "done", !.refresh = "rejected",
                                             !.error = answer,
                                             !.result = RefreshRejected(answer)]]
                /\ UNCHANGED issued
    /\ UNCHANGED <<tokens, written, ncalls>>

\* .async_map(|access_token| async { let _ = db.set_access_token(..).await ..;
\* Some(access_token) })
TokenWriteBack(c) ==
    /\ call[c].pc = "set"
    /\ \E set_ok \in BOOLEAN :
         LET access_token == call[c].token[1]
             key == <<call[c].merchant_id, call[c].connector>>
         IN  /\ tokens' = WriteBackCache(tokens, call[c].merchant_id,
                                          call[c].connector, access_token, set_ok)
             /\ written' = IF set_ok THEN written \cup {key} ELSE written
             /\ call' = [call EXCEPT ![c] =
                           [@ EXCEPT !.pc = "done", !.writes = @ + 1,
                                     !.set = IF set_ok THEN "ok" ELSE "failed",
                                     !.result = WriteBack(access_token, set_ok)]]
    /\ UNCHANGED <<issued, ncalls>>

\* the caller takes the result
TokenReturn(c) ==
    /\ call[c].pc = "done"
    /\ call' = [call EXCEPT ![c] = IdleCall]
    /\ UNCHANGED <<tokens, written, issued, ncalls>>

----------------------------------------------------------------------------
(* db/payment_intent.rs: store calls running concurrently.  A call computes *)
(* its record locally, then issues one cache command; the cache executes    *)
(* commands one at a time.                                                  *)

Tasks == {"t1", "t2"}

NoTask == [pc |-> "idle", new |-> None, created |-> None, reply |-> "",
           result |-> Err("none"),
           this |-> None, update |-> None, updated |-> None, order |-> 0]

TaskIdle == task = [t \in Tasks |-> NoTask]

\* each task is an insert_payment_intent(new) about to run
TaskInit ==
    task \in [Tasks -> { [NoTask EXCEPT !.pc = "start", !.new = Some(new)] :
                            new \in NewIntents }]

\* insert_payment_intent up to its cache call: key, created_intent, redis_value
TaskBuild(t) ==
    /\ task[t].pc = "start"
    /\ task' = [task EXCEPT
                  ![t].pc = "built",
                  ![t].created = Some(CreatedIntent(task[t].new[1], clock, clock))]
    /\ UNCHANGED <<clock, redis>>

\* insert_payment_intent from its hsetnx to its return
TaskWrite(t) ==
    /\ task[t].pc = "built"
    /\ \E outcome \in Outcomes :
         LET new            == task[t].new[1]
             key            == Key(new.payment_id, new.merchant_id)
             created_intent == task[t].created[1]
             done           == InsertWrite(redis, key, ToJson(created_intent))
             reply          == IF outcome = "Ok" THEN done[1] ELSE ReplyErr(outcome)
         IN  /\ redis' = IF outcome = "Ok" THEN done[2] ELSE redis
             /\ task' = [task EXCEPT
                           ![t].pc = "done",
                           ![t].reply = reply.tag,
                           ![t].result = InsertResult(reply, created_intent)]
    /\ UNCHANGED clock

\* the intents two callers can both hold: each as insert_payment_intent
\* created it at time 0
SharedIntents == { CreatedIntent(new, 0, 0) : new \in NewIntents }

\* the cache after the insert of entity e
CacheHolding(e) ==
    Hset([k \in CacheKeys |-> [f \in Fields |-> None]],
         Key(e.payment_id, e.merchant_id), "pa", ToJson(e))

\* each task is an update_payment_intent(this, payment_intent) about to run,
\* all on the same entity, which the cache holds as inserted
TaskUpdateInit ==
    \E e \in SharedIntents :
      /\ redis = CacheHolding(e)
      /\ last = NoOp
      /\ nops = 0
      /\ task \in [Tasks -> { [NoTask EXCEPT !.pc = "start", !.this = Some(e),
                                             !.update = Some(u)] :
                                u \in StoreUpdates }]

\* update_payment_intent up to its cache call: key, updated_intent, redis_value
TaskApply(t) ==
    /\ task[t].pc = "start"
    /\ task[t].this # None
    /\ task' = [task EXCEPT
                  ![t].pc = "applied",
                  ![t].updated = Some(apply_changeset(task[t].update[1],
                                                      task[t].this[1], clock))]
    /\ UNCHANGED <<clock, redis>>

\* the cache writes that have been taken so far
Taken == { t \in Tasks : task[t].pc = "done" /\ task[t].reply = "Ok" }

\* update_payment_intent from its hset to its return
TaskHset(t) ==
    /\ task[t].pc = "applied"
    /\ \E outcome \in Outcomes :
         LET this           == task[t].this[1]
             key            == Key(this.payment_id, this.merchant_id)
             updated_intent == task[t].updated[1]
         IN  /\ redis' = IF outcome = "Ok"
                           THEN UpdateWrite(redis, key, ToJson(updated_intent))
                           ELSE redis
             /\ task' = [task EXCEPT
                           ![t].pc = "done",
                           ![t].reply = outcome,
                           ![t].order = Cardinality(Taken) + 1,
                           ![t].result = IF outcome = "Ok" THEN Ok(updated_intent)
                                                         ELSE Err("KVError")]
    /\ UNCHANGED clock

----------------------------------------------------------------------------
(* types/api/webhooks.rs: trait IncomingWebhook *)

\* error_stack change_context: an error takes the given context
ChangeContext(res, context) == IF res.tag = "Ok" THEN res ELSE Err(context)

\* errors::ConnectorError values a connector's own step fails with
WebhookStepErrors == {"RequestEncodingFailed", "WebhookBodyDecodingFailed"}

\* the steps of the two pipelines a connector can supply itself
DecodingSteps == {"decoding_algorithm", "decoding_message", "decoding_secret",
                  "decode_message"}
VerificationSteps == {"verification_algorithm", "verification_signature",
                      "verification_message", "verification_secret",
                      "verify_signature"}

\* Option<the step that fails in this delivery, and its error>
Faults(steps) ==
    {None} \cup { Some([step |-> st, error |-> e]) :
                    st \in steps, e \in WebhookStepErrors }

Fails(fault, step) == fault # None /\ fault[1].step = step

\* utils::crypto: the message authentication code of message under secret
Sign(secret, message) == <<secret, message>>

\* the bodies a connector sends: two events, one event enciphered, an event
\* without a type, an event without an object, and bytes that are no event
Bodies == {"b1", "b2", "enc_b1", "no_type", "no_object", "junk"}

\* a request: body, and the signature header the sender computed over "b1"
\* with the merchant secret "k" (or sent none)
Requests == [ body : Bodies, signature : {None, Some(Sign("k", "b1"))} ]

\* a connector: the algorithms its implementation of the trait selects;
\* NoAlgorithm for a pipeline means it keeps the trait's defaults there
WebhookConnectors ==
    [ decoding : {"NoAlgorithm", "Cipher"},
      verification : {"NoAlgorithm", "HmacSha256"} ]

\* crypto::DecodeMessage::decode_message
decode_message(algorithm, secret, message, fault) ==
    IF algorithm = "NoAlgorithm" THEN Ok(message)
    ELSE IF Fails(fault, "decode_message") THEN Err("CryptoError")
    ELSE IF secret = "k" /\ message = "enc_b1" THEN Ok("b1")
    ELSE Err("CryptoError")

\* crypto::VerifySignature::verify_signature: the verdict is a boolean
verify_signature(algorithm, secret, signature, message, fault) ==
    IF algorithm = "NoAlgorithm" THEN Ok(TRUE)
    ELSE IF Fails(fault, "verify_signature") THEN Err("CryptoError")
    ELSE Ok(signature = Sign(secret, message))

\* fn get_webhook_body_decoding_algorithm (default: NoAlgorithm)
get_webhook_body_decoding_algorithm(conn, req, fault) ==
    IF conn.decoding = "NoAlgorithm" THEN Ok("NoAlgorithm")
    ELSE IF Fails(fault, "decoding_algorithm") THEN Err(fault[1].error)
    ELSE Ok(conn.decoding)

\* async fn get_webhook_body_decoding_merchant_secret (default: Vec::new())
get_webhook_body_decoding_merchant_secret(conn, fault) ==
    IF conn.decoding = "NoAlgorithm" THEN Ok("")
    ELSE IF Fails(fault, "decoding_secret") THEN Err(fault[1].error)
    ELSE Ok("k")

\* fn get_webhook_body_decoding_message (default: body.to_vec())
get_webhook_body_decoding_message(conn, req, fault) ==
    IF conn.decoding = "NoAlgorithm" THEN Ok(req.body)
    ELSE IF Fails(fault, "decoding_message") THEN Err(fault[1].error)
    ELSE Ok(req.body)

\* a decode_webhook_body that hands the body on when a step fails
decode_webhook_body_lenient(conn, req, fault) ==
    LET algorithm == get_webhook_body_decoding_algorithm(conn, req, fault)
        message   == get_webhook_body_decoding_message(conn, req, fault)
        secret    == get_webhook_body_decoding_merchant_secret(conn, fault)
        decoded   == IF algorithm.tag = "Ok" /\ message.tag = "Ok" /\ secret.tag = "Ok"
                       THEN decode_message(algorithm.val[1], secret.val[1],
                                           message.val[1], fault)
                       ELSE Err("none")
    IN  IF decoded.tag = "Ok" THEN decoded ELSE Ok(req.body)

\* async fn decode_webhook_body: the algorithm is taken with a bare "?", the
\* other three steps with change_context(WebhookBodyDecodingFailed)
decode_webhook_body(conn, req, fault) ==
    LET algorithm == get_webhook_body_decoding_algorithm(conn, req, fault)
        message   == ChangeContext(get_webhook_body_decoding_message(conn, req, fault),
                                   "WebhookBodyDecodingFailed")
        secret    == ChangeContext(get_webhook_body_decoding_merchant_secret(conn, fault),
                                   "WebhookBodyDecodingFailed")
    IN  IF algorithm.tag # "Ok" THEN Err(algorithm.tag)
        ELSE IF message.tag # "Ok" THEN Err(message.tag)
        ELSE IF secret.tag # "Ok" THEN Err(secret.tag)
        ELSE ChangeContext(decode_message(algorithm.val[1], secret.val[1],
                                          message.val[1], fault),
                           "WebhookBodyDecodingFailed")

\* fn get_webhook_source_verification_algorithm (default: NoAlgorithm)
get_webhook_source_verification_algorithm(conn, req, fault) ==
    IF conn.verification = "NoAlgorithm" THEN Ok("NoAlgorithm")
    ELSE IF Fails(fault, "verification_algorithm") THEN Err(fault[1].error)
    ELSE Ok(conn.verification)

\* async fn get_webhook_source_verification_merchant_secret (default: Vec::new())
get_webhook_source_verification_merchant_secret(conn, fault) ==
    IF conn.verification = "NoAlgorithm" THEN Ok("")
    ELSE IF Fails(fault, "verification_secret") THEN Err(fault[1].error)
    ELSE Ok("k")

\* fn get_webhook_source_verification_signature (default: Vec::new()); a
\* signing connector reads the signature header and fails when there is none
get_webhook_source_verification_signature(conn, req, fault) ==
    IF conn.verification = "NoAlgorithm" THEN Ok(<<>>)
    ELSE IF Fails(fault, "verification_signature") THEN Err(fault[1].error)
    ELSE IF req.signature = None THEN Err("RequestEncodingFailed")
    ELSE Ok(req.signature[1])

\* fn get_webhook_source_verification_message (default: Vec::new()); a
\* signing connector signs the body
get_webhook_source_verification_message(conn, req, fault) ==
    IF conn.verification = "NoAlgorithm" THEN Ok("")
    ELSE IF Fails(fault, "verification_message") THEN Err(fault[1].error)
    ELSE Ok(req.body)

\* a verify_webhook_source that takes the algorithm with a bare "?"
verify_webhook_source_bare(conn, req, fault) ==
    LET algorithm == get_webhook_source_verification_algorithm(conn, req, fault)
        signature == ChangeContext(get_webhook_source_verification_signature(conn, req, fault),
                                   "WebhookSourceVerificationFailed")
        message   == ChangeContext(get_webhook_source_verification_message(conn, req, fault),
                                   "WebhookSourceVerificationFailed")
        secret    == ChangeContext(get_webhook_source_verification_merchant_secret(conn, fault),
                                   "WebhookSourceVerificationFailed")
    IN  IF algorithm.tag # "Ok" THEN Err(algorithm.tag)
        ELSE IF signature.tag # "Ok" THEN Err(signature.tag)
        ELSE IF message.tag # "Ok" THEN Err(message.tag)
        ELSE IF secret.tag # "Ok" THEN Err(secret.tag)
        ELSE ChangeContext(verify_signature(algorithm.val[1], secret.val[1],
                                            signature.val[1], message.val[1], fault),
                           "WebhookSourceVerificationFailed")

\* a verify_webhook_source whose verdict is true whenever no step fails
verify_webhook_source_accepting(conn, req, fault) ==
    LET verified == verify_webhook_source_bare(conn, req, fault) IN
    IF verified.tag = "Ok" THEN Ok(TRUE)
                           ELSE Err("WebhookSourceVerificationFailed")

\* async fn verify_webhook_source: every step is taken with
\* change_context(WebhookSourceVerificationFailed)
verify_webhook_source(conn, req, fault) ==
    LET algorithm == ChangeContext(get_webhook_source_verification_algorithm(conn, req, fault),
                                   "WebhookSourceVerificationFailed")
        signature == ChangeContext(get_webhook_source_verification_signature(conn, req, fault),
                                   "WebhookSourceVerificationFailed")
        message   == ChangeContext(get_webhook_source_verification_message(conn, req, fault),
                                   "WebhookSourceVerificationFailed")
        secret    == ChangeContext(get_webhook_source_verification_merchant_secret(conn, fault),
                                   "WebhookSourceVerificationFailed")
    IN  IF algorithm.tag # "Ok" THEN Err(algorithm.tag)
        ELSE IF signature.tag # "Ok" THEN Err(signature.tag)
        ELSE IF message.tag # "Ok" THEN Err(message.tag)
        ELSE IF secret.tag # "Ok" THEN Err(secret.tag)
        ELSE ChangeContext(verify_signature(algorithm.val[1], secret.val[1],
                                            signature.val[1], message.val[1], fault),
                           "WebhookSourceVerificationFailed")

\* the event a body carries, field by field (None: the body has no such field)
Event(body) ==
    CASE body = "b1" ->
           [id |-> Some("pay_1"), type |-> Some("payment.succeeded"), object |-> Some("b1")]
      [] body = "b2" ->
           [id |-> Some("pay_2"), type |-> Some("payment.succeeded"), object |-> Some("b2")]
      [] body = "no_type" ->
           [id |-> Some("pay_3"), type |-> None, object |-> Some("no_type")]
      [] body = "no_object" ->
           [id |-> Some("pay_4"), type |-> Some("payment.failed"), object |-> None]
      [] OTHER ->
           [id |-> None, type |-> None, object |-> None]

\* fn get_webhook_object_reference_id(&self, body)
get_webhook_object_reference_id(body) ==
    IF Event(body).id # None THEN Ok(Event(body).id[1])
                             ELSE Err("WebhookReferenceIdNotFound")

\* fn get_webhook_event_type(&self, body)
get_webhook_event_type(body) ==
    IF Event(body).type # None THEN Ok(Event(body).type[1])
                               ELSE Err("WebhookEventTypeNotFound")

\* fn get_webhook_resource_object(&self, body)
get_webhook_resource_object(body) ==
    IF Event(body).object # None THEN Ok(Event(body).object[1])
                                 ELSE Err("WebhookResourceObjectNotFound")

\* struct IncomingWebhookDetails
IncomingWebhookDetails(object_reference_id, connector_event_type, resource_object) ==
    [ object_reference_id  |-> object_reference_id,
      connector_event_type |-> connector_event_type,
      resource_object      |-> resource_object ]

\* the handling of one incoming webhook: decode the body, verify the source,
\* extract from the decoded body, build IncomingWebhookDetails

NoHook == [pc |-> "idle",
           conn |-> [decoding |-> "NoAlgorithm", verification |-> "NoAlgorithm"],
           req |-> [body |-> "", signature |-> None],
           decoding_fault |-> None, verification_fault |-> None,
           decoded |-> Err("none"), verified |-> Err("none"),
           outcome |-> Err("none")]

HookIdle == hook = NoHook

\* a request of some connector has arrived
HookInit ==
    hook \in { [NoHook EXCEPT !.pc = "received", !.conn = conn, !.req = req] :
                 conn \in WebhookConnectors, req \in Requests }

\* connector.decode_webhook_body(headers, body, merchant_id, redis_conn).await?
HookDecode ==
    /\ hook.pc = "received"
    /\ \E fault \in Faults(DecodingSteps) :
         LET decoded == decode_webhook_body(hook.conn, hook.req, fault) IN
         hook' = [hook EXCEPT
                    !.decoding_fault = fault,
                    !.decoded = decoded,
                    !.pc = IF decoded.tag = "Ok" THEN "decoded" ELSE "done",
                    !.outcome = IF decoded.tag = "Ok" THEN @ ELSE Err(decoded.tag)]

\* connector.verify_webhook_source(headers, body, merchant_id, redis_conn).await?
\* and the refusal of a webhook whose verdict is false
HookVerify ==
    /\ hook.pc = "decoded"
    /\ \E fault \in Faults(VerificationSteps) :
         LET verified == verify_webhook_source(hook.conn, hook.req, fault) IN
         hook' = [hook EXCEPT
                    !.verification_fault = fault,
                    !.verified = verified,
                    !.pc = IF verified = Ok(TRUE) THEN "verified" ELSE "done",
                    !.outcome =
                       IF verified = Ok(TRUE) THEN @
                       ELSE IF verified.tag = "Ok"
                         THEN Err("WebhookSourceVerificationFailed")
                         ELSE Err(verified.tag)]

\* the three extractions on the decoded body, then IncomingWebhookDetails
HookExtract ==
    /\ hook.pc = "verified"
    /\ LET body                 == hook.decoded.val[1]
           object_reference_id  == get_webhook_object_reference_id(body)
           connector_event_type == get_webhook_event_type(body)
           resource_object      == get_webhook_resource_object(body)
       IN  hook' = [hook EXCEPT
                      !.pc = "done",
                      !.outcome =
                         IF object_reference_id.tag # "Ok"
                           THEN Err(object_reference_id.tag)
                         ELSE IF connector_event_type.tag # "Ok"
                           THEN Err(connector_event_type.tag)
                         ELSE IF resource_object.tag # "Ok"
                           THEN Err(resource_object.tag)
                         ELSE Ok(IncomingWebhookDetails(
                                   object_reference_id.val[1],
                                   connector_event_type.val[1],
                                   resource_object.val[1]))]

----------------------------------------------------------------------------
(* Specifications *)

\* the payment intent store on the cache backend
Init ==
    /\ clock = 0
    /\ StoreInit
    /\ CsIdle
    /\ TokenInit
    /\ TaskIdle
    /\ HookIdle

Next ==
    \/ Tick /\ UNCHANGED <<storeVars, csVars, tokenVars, taskVars, hookVars>>
    \/ insert_payment_intent /\ UNCHANGED <<csVars, tokenVars, taskVars, hookVars>>
    \/ update_payment_intent /\ UNCHANGED <<csVars, tokenVars, taskVars, hookVars>>
    \/ find_payment_intent_by_payment_id_merchant_id /\ UNCHANGED <<csVars, tokenVars, taskVars, hookVars>>
    \/ filter_payment_intent_by_constraints /\ UNCHANGED <<csVars, tokenVars, taskVars, hookVars>>

Spec == Init /\ [][Next]_vars

\* apply_changeset as a pure function
InitChangeset ==
    /\ clock = 0
    /\ StoreInit
    /\ CsInit
    /\ TokenInit
    /\ TaskIdle
    /\ HookIdle

NextChangeset ==
    \/ Tick /\ UNCHANGED <<storeVars, csVars, tokenVars, taskVars, hookVars>>
    \/ CsApply /\ UNCHANGED <<storeVars, tokenVars, taskVars, hookVars>>
    \/ CsAgain /\ UNCHANGED <<storeVars, tokenVars, taskVars, hookVars>>

SpecChangeset == InitChangeset /\ [][NextChangeset]_vars

\* the access-token coordinator with concurrent callers
InitToken ==
    /\ clock = 0
    /\ StoreInit
    /\ CsIdle
    /\ TokenInit
    /\ TaskIdle
    /\ HookIdle

NextToken ==
    \E c \in Callers :
        \/ TokenStart(c) /\ UNCHANGED <<clock, storeVars, csVars, taskVars, hookVars>>
        \/ TokenLookup(c) /\ UNCHANGED <<clock, storeVars, csVars, taskVars, hookVars>>
        \/ TokenRefresh(c) /\ UNCHANGED <<clock, storeVars, csVars, taskVars, hookVars>>
        \/ TokenWriteBack(c) /\ UNCHANGED <<clock, storeVars, csVars, taskVars, hookVars>>
        \/ TokenReturn(c) /\ UNCHANGED <<clock, storeVars, csVars, taskVars, hookVars>>

SpecToken == InitToken /\ [][NextToken]_vars

\* store calls running concurrently on a cache that starts empty
InitConcurrent ==
    /\ clock = 0
    /\ StoreInit
    /\ CsIdle
    /\ TokenInit
    /\ TaskInit
    /\ HookIdle

NextConcurrent ==
    \/ Tick /\ UNCHANGED <<storeVars, csVars, tokenVars, taskVars, hookVars>>
    \/ \E t \in Tasks :
          \/ TaskBuild(t) /\ UNCHANGED <<last, nops, csVars, tokenVars, hookVars>>
          \/ TaskWrite(t) /\ UNCHANGED <<last, nops, csVars, tokenVars, hookVars>>

SpecConcurrent == InitConcurrent /\ [][NextConcurrent]_vars

\* update calls running concurrently on one entity
InitConcurrentUpdates ==
    /\ clock = 0
    /\ TaskUpdateInit
    /\ CsIdle
    /\ TokenInit
    /\ HookIdle

NextConcurrentUpdates ==
    \/ Tick /\ UNCHANGED <<storeVars, csVars, tokenVars, taskVars, hookVars>>
    \/ \E t \in Tasks :
          \/ TaskApply(t) /\ UNCHANGED <<last, nops, csVars, tokenVars, hookVars>>
          \/ TaskHset(t) /\ UNCHANGED <<last, nops, csVars, tokenVars, hookVars>>

SpecConcurrentUpdates == InitConcurrentUpdates /\ [][NextConcurrentUpdates]_vars

\* the handling of one incoming webhook
InitWebhook ==
    /\ clock = 0
    /\ StoreInit
    /\ CsIdle
    /\ TokenInit
    /\ TaskIdle
    /\ HookInit

NextWebhook ==
    \/ HookDecode /\ UNCHANGED <<clock, storeVars, csVars, tokenVars, taskVars>>
    \/ HookVerify /\ UNCHANGED <<clock, storeVars, csVars, tokenVars, taskVars>>
    \/ HookExtract /\ UNCHANGED <<clock, storeVars, csVars, tokenVars, taskVars>>

SpecWebhook == InitWebhook /\ [][NextWebhook]_vars


----------------------------------------------------------------------------
(* Properties of the payment intent store *)

\* the intents held under the hash field f of the cache
StoredUnder(f) ==
    { FromJson(redis[k][f][1]) : k \in { x \in CacheKeys : redis[x][f] # None } }

\* an insert of (payment_id, merchant_id) has succeeded: only a successful
\* insert writes the field "pa", and nothing removes it
Inserted(payment_id, merchant_id) ==
    \E e \in StoredUnder("pa") :
        e.payment_id = payment_id /\ e.merchant_id = merchant_id

\* an intent with the natural key (payment_id, merchant_id) is in the cache
IntentExists(payment_id, merchant_id) ==
    \E e \in Held : e.payment_id = payment_id /\ e.merchant_id = merchant_id

\* this step is a store operation named op
Does(op) == nops' = nops + 1 /\ last'.op = op

\* C1: once an insert with the key (payment_id, merchant_id) has succeeded, a
\* later insert_payment_intent with the same key never succeeds and leaves
\* the cache exactly as it was: it fails with DuplicateValue whenever the
\* cache answers the conditional write (and with KVError when the cache call
\* itself fails).
C1_SecondInsertIsDuplicate ==
    [][ (Does("insert") /\ Inserted(last'.payment_id, last'.merchant_id))
          => /\ redis' = redis
             /\ last'.result = IF last'.reply = "Ok" THEN Err("DuplicateValue")
                                                      ELSE Err("KVError") ]_vars

\* C1 witness: an insert was answered DuplicateValue for a key whose own
\* intent is the one held under "pa"
C1_Witness ==
    /\ last.op = "insert"
    /\ last.reply = "Ok"
    /\ last.result = Err("DuplicateValue")
    /\ Inserted(last.payment_id, last.merchant_id)

\* the fields of an intent the backend does not assign
CallerFields(e) ==
    [f \in DOMAIN e \ {"id", "created_at", "modified_at"} |-> e[f]]

\* C2: a successful insert_payment_intent(new) followed immediately by
\* find_payment_intent_by_payment_id_merchant_id with the same payment_id and
\* merchant_id succeeds (the cache answering) and returns the inserted record,
\* up to id and the timestamps.
C2_InsertThenFindRoundTrip ==
    [][ ( /\ last.op = "insert" /\ last.result.tag = "Ok"
          /\ Does("find")
          /\ last'.payment_id = last.payment_id
          /\ last'.merchant_id = last.merchant_id
          /\ last'.reply \notin RedisErrorKinds )
          => /\ last'.result.tag = "Ok"
             /\ CallerFields(last'.result.val[1]) = CallerFields(last.result.val[1]) ]_vars

\* C4: every intent the store holds whose status is Succeeded has no
\* client_secret.
C4_StoredSucceededHasNoSecret ==
    \A e \in Held : e.status = "Succeeded" => e.client_secret = None

\* C5: find on a key for which no intent exists returns ValueNotFound
\* whenever the cache answers, and KVError is returned only for a cache error
\* other than "not found".
C5_FindMissingIsValueNotFound ==
    last.op = "find" =>
      /\ ( ~IntentExists(last.payment_id, last.merchant_id)
           /\ last.reply \notin RedisErrorKinds )
           => last.result = Err("ValueNotFound")
      /\ last.result = Err("KVError") => last.reply \in RedisErrorKinds

\* C10: filter_payment_intent_by_constraints yields KVError for every
\* merchant_id and every constraint set, in every state of the cache, and
\* never a list.
C10_FilterIsKVError ==
    last.op = "filter" => last.result = Err("KVError")

\* C10 witness: a listing was asked of a cache that holds intents
C10_Witness ==
    /\ last.op = "filter"
    /\ last.pc = "limit"
    /\ Held # {}

\* C22: insert_payment_intent fails with DuplicateValue only if an intent
\* with the same (payment_id, merchant_id) was inserted before: intents with
\* different pairs never meet on the cache key payment_id + "_" + merchant_id.
C22_DuplicateOnlyForSameNaturalKey ==
    [][ (Does("insert") /\ last'.result = Err("DuplicateValue"))
          => Inserted(last'.payment_id, last'.merchant_id) ]_vars

\* C17: an update_payment_intent whose target intent does not exist fails
\* with ValueNotFound (the cache answering) and creates no record.
C17_UpdateMissingIsValueNotFound ==
    [][ ( /\ Does("update")
          /\ ~IntentExists(last'.payment_id, last'.merchant_id)
          /\ last'.reply \notin RedisErrorKinds )
          => /\ last'.result = Err("ValueNotFound")
             /\ redis' = redis ]_vars

\* two tasks have inserted the same (payment_id, merchant_id), the cache
\* having answered both
SameKeyInserts(t, u) ==
    /\ t # u
    /\ task[t].pc = "done" /\ task[u].pc = "done"
    /\ task[t].new[1].payment_id = task[u].new[1].payment_id
    /\ task[t].new[1].merchant_id = task[u].new[1].merchant_id
    /\ task[t].reply \notin RedisErrorKinds
    /\ task[u].reply \notin RedisErrorKinds

\* C19: of two concurrent insert_payment_intent calls with the same
\* (payment_id, merchant_id), in every interleaving (the cache answering both)
\* exactly one returns its created intent, the other fails with
\* DuplicateValue, and the cache holds the record of the one that succeeded.
C19_ConcurrentInsertsOneWins ==
    \A t, u \in Tasks :
        SameKeyInserts(t, u) =>
          \E w \in {t, u} :
             LET l   == CHOOSE x \in {t, u} : x # w
                 new == task[w].new[1]
             IN  /\ task[w].result = Ok(task[w].created[1])
                 /\ task[l].result = Err("DuplicateValue")
                 /\ redis[Key(new.payment_id, new.merchant_id)]["pa"]
                      = Some(ToJson(task[w].created[1]))

\* both inserts done on the same key with different records, the one with
\* the later created_at having won
C19_Witness ==
    /\ SameKeyInserts("t1", "t2")
    /\ task["t1"].created # task["t2"].created
    /\ task["t1"].created[1].created_at < task["t2"].created[1].created_at
    /\ task["t2"].result.tag = "Ok"
    /\ task["t1"].result = Err("DuplicateValue")

\* all update tasks have returned
UpdatesDone == \A t \in Tasks : task[t].pc = "done" /\ task[t].this # None

\* the task whose cache write was taken last
LastTaken(t) == t \in Taken /\ \A u \in Taken : task[u].order <= task[t].order

\* C21: after two concurrent update_payment_intent calls on the same entity
\* have completed, the record the cache holds is exactly the merged entity
\* written by the call whose write the cache took last; what the other call
\* changed is in it only where the last call's own merge gives the same.
C21_ConcurrentUpdatesLastWriteWins ==
    UpdatesDone =>
      \A t \in Tasks :
        LastTaken(t) =>
          LET this == task[t].this[1]
              key  == Key(this.payment_id, this.merchant_id)
          IN  /\ redis[key]["pi"] = Some(ToJson(task[t].updated[1]))
              /\ task[t].updated[1]
                   = apply_changeset(task[t].update[1], this,
                                     task[t].updated[1].modified_at)

\* both writes were taken, t1's last: the cache holds t1's entity, with the
\* status of the source, and the Succeeded that t2 wrote is gone
C21_Witness ==
    /\ UpdatesDone
    /\ Taken = Tasks
    /\ task["t1"].order = 2
    /\ task["t2"].updated[1].status = "Succeeded"
    /\ task["t1"].this[1].status # "Succeeded"
    /\ task["t1"].updated[1].status = task["t1"].this[1].status
    /\ task["t1"].updated[1].return_url # None
    /\ LET this == task["t1"].this[1] IN
         FromJson(redis[Key(this.payment_id, this.merchant_id)]["pi"][1]).status
           = this.status

----------------------------------------------------------------------------
(* Properties of apply_changeset *)

\* C3: for every update variant and every source intent, a result of
\* apply_changeset whose status is Succeeded has no client_secret.
C3_SucceededResultHasNoSecret ==
    csResult # None =>
      (csResult[1].status = "Succeeded" => csResult[1].client_secret = None)

\* C11: apply_changeset with MetadataUpdate{metadata: M} gives an intent that
\* has metadata M and differs from the source in metadata and modified_at
\* only: status, client_secret and every other field are the source's.
C11_MetadataUpdateFrame ==
    (csResult # None /\ csUpdate.variant = "MetadataUpdate") =>
      /\ csResult[1].metadata = Some(csUpdate.metadata)
      /\ \A f \in DOMAIN csSource \ {"metadata", "modified_at"} :
            csResult[1][f] = csSource[f]

\* a MetadataUpdate applied to an intent that has every optional field set
C11_Witness ==
    /\ csResult # None
    /\ csUpdate.variant = "MetadataUpdate"
    /\ csSource.return_url # None
    /\ csSource.client_secret # None
    /\ csSource.metadata # Some(csUpdate.metadata)
    /\ csResult[1].metadata = Some(csUpdate.metadata)

\* C16: the modified_at of apply_changeset(update, source) is strictly greater
\* than source.modified_at, for every source and every update variant.
C16_ModifiedAtStrictlyIncreases ==
    csResult # None => csResult[1].modified_at > csSource.modified_at

\* the fields a variant of PaymentIntentUpdate carries, and those among them
\* that are not an Option
Carried(u) == DOMAIN u \ {"variant"}
Plain(u) ==
    IF u.variant = "ReturnUrlUpdate" THEN {}
    ELSE Carried(u) \cap {"status", "amount", "currency", "metadata"}

\* the value the update gives for field f, as an Option
Given(u, f) ==
    IF f \notin Carried(u) THEN None
    ELSE IF f \in Plain(u) THEN Some(u[f]) ELSE u[f]

\* the fields of the intent that hold a value and not an Option
Required == {"amount", "status"}

\* C18: apply_changeset merges field by field: a field for which the update
\* gives a value takes it, a field it leaves unspecified keeps the value of
\* the source (client_secret is kept unless it is forced absent with status
\* Succeeded); the Update variant always sets status, amount and currency.
C18_MergePerField ==
    csResult # None =>
      /\ \A f \in DOMAIN csSource \ {"client_secret", "modified_at"} :
            csResult[1][f] =
              IF Given(csUpdate, f) = None THEN csSource[f]
              ELSE IF f \in Required THEN Given(csUpdate, f)[1]
              ELSE Given(csUpdate, f)
      /\ csResult[1].client_secret # csSource.client_secret =>
            (csResult[1].client_secret = None /\ csResult[1].status = "Succeeded")
      /\ csUpdate.variant = "Update" =>
            /\ csResult[1].status = csUpdate.status
            /\ csResult[1].amount = csUpdate.amount
            /\ csResult[1].currency = Some(csUpdate.currency)

\* an Update that replaces status, amount and currency of an intent that has
\* a customer, and gives no customer itself
C18_Witness ==
    /\ csResult # None
    /\ csUpdate.variant = "Update"
    /\ csSource.currency \notin {None, Some(csUpdate.currency)}
    /\ csSource.status # csUpdate.status
    /\ csSource.amount # csUpdate.amount
    /\ csUpdate.customer_id = None
    /\ csSource.customer_id # None
    /\ csResult[1].currency = Some(csUpdate.currency)
    /\ csResult[1].customer_id = csSource.customer_id


\* the fields of PaymentIntent that no PaymentIntentUpdateInternal field maps to
Untouched ==
    {"id", "payment_id", "merchant_id", "created_at", "description",
     "connector_id", "statement_descriptor_name", "statement_descriptor_suffix",
     "last_synced"}

\* C23: for every update variant apply_changeset leaves id, payment_id,
\* merchant_id, created_at, description, connector_id, the statement
\* descriptors and last_synced as they are in the source; the result has the
\* cache key of the source, and along a sequence of updates the natural key
\* stays what it was.
C23_UntouchedFieldsAndKey ==
    /\ [](csResult # None =>
            /\ \A f \in Untouched : csResult[1][f] = csSource[f]
            /\ Key(csResult[1].payment_id, csResult[1].merchant_id)
                 = Key(csSource.payment_id, csSource.merchant_id))
    /\ [][ /\ csSource'.payment_id = csSource.payment_id
           /\ csSource'.merchant_id = csSource.merchant_id ]_vars

\* an update applied, after the clock moved, to the result of an earlier
\* update of an intent that has a description and a last_synced
C23_Witness ==
    /\ csResult # None
    /\ csChain = 2
    /\ csSource.description # None
    /\ csSource.last_synced # None
    /\ csResult[1].modified_at # csSource.created_at
    /\ csResult[1].created_at = csSource.created_at
    /\ csResult[1].status # csSource.status

\* the optional fields of PaymentIntent that an update can set, client_secret
\* apart
Optional ==
    {"currency", "amount_captured", "customer_id", "return_url", "metadata",
     "billing_address_id", "shipping_address_id", "setup_future_usage",
     "off_session"}

----------------------------------------------------------------------------
(* Properties of add_access_token *)

\* the calls that have run to their end
Finished == { c \in Callers : call[c].pc = "done" }

\* C6: a call that finds the cache cold makes exactly one refresh call and,
\* unless that call fails outright, returns attempted = true; a call whose
\* lookup is answered after a write-back for the same (merchant_id, connector)
\* has succeeded is a hit: it returns the cached token with attempted = true
\* and makes no refresh call.
C6_ColdRefreshesOnceWarmHits ==
    \A c \in Finished :
      /\ call[c].lookup = "miss" =>
           /\ call[c].refreshes = 1
           /\ call[c].refresh # "failed" =>
                (call[c].result.outer = "Ok" /\ call[c].result.attempted)
      /\ (call[c].warm /\ call[c].lookup # "failed") => call[c].lookup = "hit"
      /\ call[c].lookup = "hit" =>
           /\ call[c].refreshes = 0
           /\ call[c].result = Returned("Ok", call[c].cached, "", TRUE)

\* C6 witness: after one refresh and its write-back, a second call was a hit
\* that returned the token of that refresh
C6_Witness ==
    \E c \in Finished :
      /\ call[c].warm
      /\ call[c].lookup = "hit"
      /\ call[c].result.token = Some(1)
      /\ issued = 1
      /\ ncalls = 2

\* C7: when the refresh call succeeds and the write-back to the cache fails,
\* the call still returns the token just obtained, with attempted = true.
C7_WriteBackFailureIsNotFatal ==
    \A c \in Finished :
      (call[c].refresh = "token" /\ call[c].set = "failed") =>
        call[c].result = Returned("Ok", call[c].token, "", TRUE)

\* C7 witness: a call ended after a refresh that gave a token and a failed
\* write-back, the cache still cold
C7_Witness ==
    \E c \in Finished :
      /\ call[c].refresh = "token"
      /\ call[c].set = "failed"
      /\ tokens[<<call[c].merchant_id, call[c].connector>>] = None

\* C8: for a connector that does not use access tokens the call returns the
\* default error response with attempted = false, without any cache lookup,
\* cache write or refresh call.
C8_UnsupportedConnectorDoesNothing ==
    \A c \in Callers :
      ( call[c].pc # "idle"
        /\ ~connector_supports_access_token(call[c].connector) ) =>
        /\ call[c].pc = "done"
        /\ call[c].result = Returned("Err", None, "default", FALSE)
        /\ call[c].reads = 0
        /\ call[c].writes = 0
        /\ call[c].refreshes = 0

\* C8 witness: a call for Stripe has ended
C8_Witness ==
    \E c \in Finished : call[c].connector = "Stripe"

\* C9: when the cache misses and the connector answers the refresh with an
\* error response, that error response is the token result and attempted is
\* true.
C9_RefreshErrorIsPropagated ==
    \A c \in Finished :
      (call[c].lookup = "miss" /\ call[c].refresh = "rejected") =>
        call[c].result = Returned("Err", None, call[c].error, TRUE)

\* C9 witness: a call ended on a miss followed by the connector's E500
C9_Witness ==
    \E c \in Finished :
      /\ call[c].lookup = "miss"
      /\ call[c].refresh = "rejected"
      /\ call[c].error = "E500"

\* C25: for a connector that uses access tokens, a cache lookup that itself
\* fails ends add_access_token with an internal error: no pair is returned,
\* no refresh call is made, nothing is written to the cache; and a refresh
\* call that fails outright ends it with an internal error as well, without a
\* write to the cache.
C25_InfrastructureFailureFailsCall ==
    \A c \in Finished :
      /\ call[c].lookup = "failed" =>
           /\ connector_supports_access_token(call[c].connector)
           /\ call[c].result.outer = "InternalServerError"
           /\ call[c].result.token = None
           /\ call[c].refreshes = 0
           /\ call[c].writes = 0
      /\ call[c].refresh = "failed" =>
           /\ call[c].result.outer = "InternalServerError"
           /\ call[c].result.token = None
           /\ call[c].refreshes = 1
           /\ call[c].writes = 0
           /\ call[c].set = "none"

\* one call ended on a failed lookup and another, for the same key, on a
\* refresh that failed outright; the cache is still cold
C25_Witness ==
    /\ Finished = Callers
    /\ call["a"].lookup = "failed"
    /\ call["b"].lookup = "miss"
    /\ call["b"].refresh = "failed"
    /\ call["a"].merchant_id = call["b"].merchant_id
    /\ call["a"].connector = call["b"].connector
    /\ tokens[<<call["b"].merchant_id, call["b"].connector>>] = None

\* caller c ends a write-back in this step
WritesBack(c) == call[c].pc = "set" /\ call'[c].pc = "done"

\* C20: concurrent add_access_token calls for one (merchant_id, connector):
\* every call whose refresh gave a token returns that token, its own; and the
\* cache changes only by a write-back and holds, after each write-back it
\* took, the token of that write-back, so that after two write-backs it holds
\* the token of the one that completed last.
C20_EachOwnTokenLastWriteWins ==
    /\ [](\A c \in Finished :
            call[c].refresh = "token" =>
              call[c].result = Returned("Ok", call[c].token, "", TRUE))
    /\ [][ /\ \A c \in Callers :
               WritesBack(c) =>
                 tokens' = IF call'[c].set = "ok"
                             THEN [tokens EXCEPT
                                     ![<<call[c].merchant_id, call[c].connector>>]
                                        = call[c].token]
                             ELSE tokens
           /\ tokens' # tokens => \E c \in Callers : WritesBack(c) ]_vars

\* both callers missed on the same cold key, each refreshed and got its own
\* token, both write-backs were taken; the cache holds the token issued first,
\* whose write-back came last
C20_Witness ==
    /\ Finished = Callers
    /\ call["a"].merchant_id = call["b"].merchant_id
    /\ call["a"].connector = call["b"].connector
    /\ \A c \in Callers : /\ call[c].lookup = "miss"
                          /\ ~call[c].warm
                          /\ call[c].refresh = "token"
                          /\ call[c].set = "ok"
                          /\ call[c].result.token = call[c].token
    /\ call["a"].token = Some(1)
    /\ call["b"].token = Some(2)
    /\ tokens[<<call["a"].merchant_id, call["a"].connector>>] = Some(1)

----------------------------------------------------------------------------
(* Properties of the webhook verifier *)

\* one of the four steps of decode_webhook_body has failed
DecodingStepFailed(conn, req, fault) ==
    LET algorithm == get_webhook_body_decoding_algorithm(conn, req, fault)
        message   == get_webhook_body_decoding_message(conn, req, fault)
        secret    == get_webhook_body_decoding_merchant_secret(conn, fault)
    IN  \/ algorithm.tag # "Ok"
        \/ message.tag # "Ok"
        \/ secret.tag # "Ok"
        \/ decode_message(algorithm.val[1], secret.val[1], message.val[1],
                          fault).tag # "Ok"

\* one of the five steps of verify_webhook_source has failed
VerificationStepFailed(conn, req, fault) ==
    LET algorithm == get_webhook_source_verification_algorithm(conn, req, fault)
        signature == get_webhook_source_verification_signature(conn, req, fault)
        message   == get_webhook_source_verification_message(conn, req, fault)
        secret    == get_webhook_source_verification_merchant_secret(conn, fault)
    IN  \/ algorithm.tag # "Ok"
        \/ signature.tag # "Ok"
        \/ message.tag # "Ok"
        \/ secret.tag # "Ok"
        \/ verify_signature(algorithm.val[1], secret.val[1], signature.val[1],
                            message.val[1], fault).tag # "Ok"

HasDecoded  == hook.decoded # Err("none")
HasVerified == hook.verified # Err("none")

\* C12: decode_webhook_body returns the error WebhookBodyDecodingFailed
\* whenever one of its steps fails: algorithm selection, message extraction,
\* secret retrieval or the decode itself.
C12_DecodeFailureIsBodyDecodingFailed ==
    (HasDecoded /\ DecodingStepFailed(hook.conn, hook.req, hook.decoding_fault))
      => hook.decoded = Err("WebhookBodyDecodingFailed")

\* C13: verify_webhook_source returns the error
\* WebhookSourceVerificationFailed whenever one of its steps fails (algorithm
\* selection, signature extraction, message extraction, secret retrieval, the
\* verification itself) and a boolean verdict otherwise.
C13_VerifyFailureIsSourceVerificationFailed ==
    HasVerified =>
      IF VerificationStepFailed(hook.conn, hook.req, hook.verification_fault)
        THEN hook.verified = Err("WebhookSourceVerificationFailed")
        ELSE hook.verified \in {Ok(TRUE), Ok(FALSE)}

\* the algorithm selection of a signing connector failed with an error of
\* another kind, and the call returned WebhookSourceVerificationFailed
C13_Witness ==
    /\ HasVerified
    /\ hook.conn.verification = "HmacSha256"
    /\ Fails(hook.verification_fault, "verification_algorithm")
    /\ hook.verification_fault[1].error = "RequestEncodingFailed"
    /\ hook.verified = Err("WebhookSourceVerificationFailed")

\* the request carries the signature of another body
Tampered == hook.req.signature = Some(Sign("k", "b1")) /\ hook.req.body # "b1"

WebhookErrors ==
    WebhookStepErrors \cup
    {"WebhookSourceVerificationFailed", "WebhookReferenceIdNotFound",
     "WebhookEventTypeNotFound", "WebhookResourceObjectNotFound"}

============================================================================
